---- MODULE Spec2Model ----
(***************************************************************************)
(* Model of the bld pipeline Runner (bld_runner/src/sync/runner.rs): one   *)
(* run tree executed on the run thread, the stop-signal channel it polls,  *)
(* the persistent running flag, the shared logger and the platforms.       *)
(***************************************************************************)
EXTENDS Integers, Sequences, FiniteSets, TLC

\* ---------------------------------------------------------------- bounds
\* Number of cancel tokens the stop endpoint may push during one run.
MaxCancel == 1
\* Number of operations (build, transfer, command, dispose) that may fail in one run.
MaxFaults == 1
\* Depth of nested Runners (root = 1).
MaxDepth == 3

\* ------------------------------------------------------------- constants
None == "None"
PUSH == "push"
GET == "get"
MACHINE == "machine"
DOCKER == "docker"

\* ------------------------------------------------------------- pipelines
\* An Artifact declaration: after (optional step name), method, from/to
\* presence, ignore_errors.
Artifact(after, method, from, to, ignore_errors) ==
    [after |-> after, method |-> method, from |-> from, to |-> to,
     ignore_errors |-> ignore_errors]

\* A BuildStep: optional name, call list, command list.
BuildStep(name, call, commands) ==
    [name |-> name, call |-> call, commands |-> commands]

\* A parsed Pipeline.
Pipeline(name, runs_on, dispose, artifacts, steps) ==
    [name |-> name, runs_on |-> runs_on, dispose |-> dispose,
     artifacts |-> artifacts, steps |-> steps]

PipelineNames == {"root", "child", "leaf"}

\* The pipeline files the proxy serves: root calls child then leaf in its
\* first step, child calls leaf; root's second step has no name. Root
\* declares an artifact of another method, one without `from`, one without
\* `to`, and one anchored at a name that no step has.
PipelineFiles(ro, co, rd, cd) ==
    [p \in PipelineNames |->
        CASE p = "root" ->
            Pipeline("root", ro, rd,
                << Artifact(None, PUSH, TRUE, TRUE, FALSE),
                   Artifact("build", "zip", TRUE, TRUE, FALSE),
                   Artifact("build", GET, TRUE, TRUE, TRUE),
                   Artifact("build", PUSH, FALSE, TRUE, FALSE),
                   Artifact(None, GET, TRUE, FALSE, FALSE),
                   Artifact("deploy", PUSH, TRUE, TRUE, FALSE) >>,
                << BuildStep("build", <<"child", "leaf">>, <<"make">>),
                   BuildStep(None, << >>, <<"test", "pack">>) >>)
          [] p = "child" ->
            Pipeline("child", co, cd,
                << Artifact(None, PUSH, TRUE, TRUE, FALSE) >>,
                << BuildStep("deps", <<"leaf">>, <<"fetch">>) >>)
          [] OTHER ->
            Pipeline("leaf", MACHINE, FALSE,
                << >>,
                << BuildStep(None, << >>, <<"lint">>) >>)]

\* ----------------------------------------------------------------- state
VARIABLES
    files,      \* pipeline name -> parsed Pipeline (what the proxy serves)
    stack,      \* the Runner frames of the run tree, root first, executing last
    built,      \* the Runners built so far, by id: caller (0 for the root) and pipeline
    running,    \* pipeline_run.running of the root's executor state
    chan,       \* cancel tokens in the stop-signal channel, not yet received
    sent,       \* cancel tokens pushed so far
    lg,         \* lines dumped to the shared logger
    tmpDir,     \* the per-run temporary directory of Machine platforms
    containers, \* ids of the Runners whose container is alive
    faults,     \* operations that failed so far
    result,     \* what the root's run returned to the run thread
    trace       \* the effects performed so far, one per step of the model

\* The state of the run tree, without the running flag.
runVars == << files, stack, built, chan, sent, lg, tmpDir, containers,
              faults, result, trace >>

\* A RunnerBuilder and the result of RunnerBuilder::build.
VARIABLES
    builder,    \* the RunnerBuilder: the fields that were supplied
    outcome,    \* what RunnerBuilder::build returned and for which results of
                \* its operations (empty before build)
    platform    \* the platform resource RunnerBuilder::build created

bldVars == << builder, outcome, platform >>

\* The run context of a Runner and of the child it calls.
VARIABLES
    decls,      \* pipeline name -> its declared environment, variables, command
    info,       \* the ExecInfo of the caller: supplied environment and variables
    runners,    \* the Runners built, root first: pipeline, resolved env and vars
    out         \* the interpolated commands that reached the platform, in order

ctxVars == << decls, info, runners, out >>

\* An ExecutePipelineSocket actor, its timers and the run thread it spawns.
VARIABLES
    actor,      \* "started", or "stopped" after ctx.stop()
    stoppedBy,  \* what stopped the actor
    age,        \* milliseconds elapsed since the instant act.hb
    sinceBeat,  \* milliseconds elapsed since the last ping or pong of the client
    phase,      \* milliseconds elapsed since the 10 s interval last fired
    due,        \* the interval callbacks that are due at the current instant
    exec,       \* act.exec: None, or Some executor state
    frames,     \* the text frames sent to the client
    lines,      \* lines of the run's log file not yet forwarded
    pool,       \* the run ids with a sender in the pipeline pool
    thread      \* the position of the run thread, and how it ended

sockVars == << actor, stoppedBy, age, sinceBeat, phase, due, exec, frames, lines,
               pool, thread >>

\* The supervisor's queue of workers.
VARIABLES
    workers,    \* the workers in enqueue order: command line and state
    handled     \* the batch given to `handle`, once it was handled alone

supVars == << workers, handled >>

\* The chain of nested calls of a run, followed without its effects.
VARIABLES
    chain,      \* the innermost Runners of the chain of calls, caller first
    deeper,     \* whether the chain has callers below the ones kept
    returned       \* what the run of the root returned, "none" until then

callVars == << chain, deeper, returned >>

vars == << runVars, running, bldVars, ctxVars, sockVars, supVars, callVars >>

\* The parts of the state the run tree, the builder, the run context, the
\* socket, the supervisor and the chain of calls do not touch.
offRun == << bldVars, ctxVars, sockVars, supVars, callVars >>
offBld == << runVars, running, ctxVars, sockVars, supVars, callVars >>
offCtx == << runVars, running, bldVars, sockVars, supVars, callVars >>
offSock == << runVars, bldVars, ctxVars, supVars, callVars >>
offSup == << runVars, running, bldVars, ctxVars, sockVars, callVars >>
offCall == << runVars, running, bldVars, ctxVars, sockVars, supVars >>

\* No RunnerBuilder is in use.
BuilderIdle ==
    /\ builder = {}
    /\ outcome = << >>
    /\ platform = "none"

\* No run context is in use.
CtxIdle ==
    /\ decls = << >>
    /\ info = << >>
    /\ runners = << >>
    /\ out = << >>

\* No run tree is executing.
RunIdle ==
    /\ files = << >>
    /\ stack = << >>
    /\ built = << >>
    /\ chan = 0
    /\ sent = 0
    /\ lg = << >>
    /\ tmpDir = "none"
    /\ containers = {}
    /\ faults = 0
    /\ result = "none"
    /\ trace = << >>

\* No socket is open.
SockIdle ==
    /\ actor = "none"
    /\ stoppedBy = "none"
    /\ age = 0
    /\ sinceBeat = 0
    /\ phase = 0
    /\ due = {}
    /\ exec = None
    /\ frames = {}
    /\ lines = 0
    /\ pool = {}
    /\ thread = [pc |-> "none", end |-> "none"]

\* The supervisor has no worker.
SupIdle == workers = << >> /\ handled = << >>

\* No chain of calls is followed.
CallIdle ==
    /\ chain = << >>
    /\ deeper = FALSE
    /\ returned = "none"

\* A Runner as built by RunnerBuilder::build, about to run: its id, its
\* pipeline, its executor state, and its position in Runner::run.
Runner(id, pip, ex) ==
    [id |-> id, pip |-> pip, ex |-> ex,
     pc |-> "start", i |-> 1, j |-> 1, k |-> 1, a |-> 1, ret |-> "none"]

Top == stack[Len(stack)]
Pip(f) == files[f.pip]
SetTop(f) == [stack EXCEPT ![Len(stack)] = f]

\* One effect of the run: the Runner performing it, the kind of effect, the
\* step it belongs to (0 outside the steps), the index of the artifact, call
\* or command, whether it succeeded, and whether the stop-signal check that
\* follows it received a token.
Event(f, ev, i, x, ok, stop) ==
    [run |-> f.id, ev |-> ev, i |-> i, x |-> x, ok |-> ok, stop |-> stop, in |-> {}]

\* Whether a frame is executing a step of Runner::steps.
InStep(f) == f.pc \in {"call", "wait", "ret", "sh", "post"}

\* A cancel token entering the stop-signal channel: the step the root Runner
\* is executing (0 when it is outside its steps) and the Runners that are
\* executing a step.
CancelEvent ==
    [run |-> 0, ev |-> "cancel",
     i |-> IF stack # << >> /\ InStep(stack[1]) THEN stack[1].i ELSE 0,
     x |-> 0, ok |-> TRUE, stop |-> FALSE,
     in |-> { stack[d].id : d \in { d \in DOMAIN stack : InStep(stack[d]) } }]

\* ------------------------------------------------------------ helpers
\* Execution::update_running: the root's executor state stores the flag, the
\* no-op executor state of a child (EmptyExec) stores nothing.
UpdateRunning(ex, value) == IF ex = "Pipeline" THEN value ELSE running

\* CheckStopSignal::check_stop_signal: a non-blocking read of the receiver,
\* which takes a waiting token out of the channel.
StopSignalled == chan > 0
Received == IF StopSignalled THEN chan - 1 ELSE chan

\* Variant of CanContinue: the presence of `from` and `to` is not checked.
CanContinueAnyPath(artifact) ==
    artifact.method = PUSH \/ artifact.method = GET

\* Runner::artifacts, the filter and can_continue: the artifacts at or after
\* index `from` that are anchored at `name` and can be transferred.
CanContinue(artifact) ==
    /\ artifact.method = PUSH \/ artifact.method = GET
    /\ artifact.from
    /\ artifact.to

\* Variant of Transferable: only a step that has a name anchors artifacts.
TransferableNamed(p, name, from) ==
    { n \in from..Len(p.artifacts) :
        /\ name # None
        /\ p.artifacts[n].after = name /\ CanContinue(p.artifacts[n]) }

Transferable(p, name, from) ==
    { n \in from..Len(p.artifacts) :
        p.artifacts[n].after = name /\ CanContinue(p.artifacts[n]) }

Min(S) == CHOOSE x \in S : \A y \in S : x <= y

NextArtifact(p, name, from) ==
    IF Transferable(p, name, from) = {} THEN Len(p.artifacts) + 1
    ELSE Min(Transferable(p, name, from))

\* The anchor of the artifacts a frame is transferring: None before the
\* steps, the name of the current step after it.
Anchor(f) == IF f.pc = "pre" THEN None ELSE Pip(f).steps[f.i].name

\* Runner::steps, after the commands of the current step: the artifacts
\* anchored at the step.
EnterPost(f) ==
    [f EXCEPT !.pc = "post", !.a = NextArtifact(Pip(f), Pip(f).steps[f.i].name, 1)]

\* Runner::sh entered for the current step: its first command, or, with no
\* command, what follows the step.
EnterSh(f) ==
    IF Len(Pip(f).steps[f.i].commands) >= 1
    THEN [f EXCEPT !.pc = "sh", !.k = 1]
    ELSE EnterPost(f)

\* Variant of EnterStep: Runner::step goes to Runner::sh without Runner::call.
EnterStepNoCall(f, i) == EnterSh([f EXCEPT !.i = i])

\* Runner::step entered for step i: its first call, or Runner::sh.
EnterStep(f, i) ==
    IF Len(Pip(f).steps[i].call) >= 1
    THEN [f EXCEPT !.pc = "call", !.i = i, !.j = 1]
    ELSE EnterSh([f EXCEPT !.i = i])

\* The steps loop reaching step i: the step, or the end of the loop.
EnterSteps(f, i) ==
    IF i <= Len(Pip(f).steps) THEN EnterStep(f, i) ELSE [f EXCEPT !.pc = "end"]

\* Runner::run with the artifacts before the steps at index a: the next one
\* to transfer, or, when artifacts(&None) has returned Ok, Runner::steps.
EnterArtifacts(f, a) ==
    IF NextArtifact(Pip(f), None, a) <= Len(Pip(f).artifacts)
    THEN [f EXCEPT !.pc = "pre", !.a = NextArtifact(Pip(f), None, a)]
    ELSE EnterSteps(f, 1)

\* The step-name line of Runner::step, when `next` has just entered step i.
StepLine(f, next, i) ==
    IF next.pc \notin {"pre", "end"} /\ Pip(f).steps[i].name # None
    THEN << [run |-> f.id, line |-> "step"] >>
    ELSE << >>

\* Variant of Unwind: the error leaves Runner::run past persist_end.
UnwindPastEnd(f) == [f EXCEPT !.pc = "dispose"]

\* An error leaving Runner::artifacts(&None) or Runner::steps inside
\* Runner::run: the error is dumped to the logger and the run goes on to
\* persist_end.
Unwind(f) == [f EXCEPT !.pc = "end"]
ErrorLine(f, e) == [run |-> f.id, line |-> e]

\* Variant of Aborts: the result of a transfer is dropped.
AbortsNever(artifact, ok) == FALSE

\* Runner::artifacts, `if !artifact.ignore_errors { result?; }`: whether the
\* result of a transfer leaves Runner::artifacts with an error.
Aborts(artifact, ok) == ~ok /\ ~artifact.ignore_errors

\* Variant of ShFails: the result of a command is dropped.
ShNeverFails(ok) == FALSE

\* Runner::sh, `machine.sh(..)?`: whether the result of a command leaves
\* Runner::sh with an error.
ShFails(ok) == ~ok

\* Whether an operation may fail now (the fault budget of the model).
Outcomes == IF faults < MaxFaults THEN {TRUE, FALSE} ELSE {TRUE}
Fault(ok) == IF ok THEN faults ELSE faults + 1

\* ------------------------------------------------------------------ Init
\* The root Runner has been built by the run thread: its platform exists.
\* The running flag is the one of the run row just inserted, whatever the
\* insert made it.
Init ==
    /\ \E ro \in {MACHINE, DOCKER}, co \in {MACHINE, DOCKER},
          rd \in BOOLEAN, cd \in BOOLEAN :
          /\ files = PipelineFiles(ro, co, rd, cd)
          /\ tmpDir = IF ro = MACHINE THEN "present" ELSE "none"
          /\ containers = IF ro = DOCKER THEN {1} ELSE {}
    /\ stack = << Runner(1, "root", "Pipeline") >>
    /\ built = << [up |-> 0, pip |-> "root"] >>
    /\ running \in BOOLEAN
    /\ chan = 0
    /\ sent = 0
    /\ lg = << >>
    /\ faults = 0
    /\ result = "none"
    /\ trace = << >>
    /\ BuilderIdle
    /\ CtxIdle
    /\ SockIdle
    /\ SupIdle
    /\ CallIdle

\* --------------------------------------------------------------- actions
\* The stop endpoint pushes a cancel token on the run's sender.
SendCancel ==
    /\ result = "none"
    /\ sent < MaxCancel
    /\ sent' = sent + 1
    /\ chan' = chan + 1
    /\ trace' = Append(trace, CancelEvent)
    /\ UNCHANGED << files, stack, built, running, lg, tmpDir, containers,
                    faults, result >>
    /\ UNCHANGED offRun

\* Runner::run: persist_start and info; then the first artifact before the
\* steps, or the first step.
PersistStart ==
    /\ stack # << >>
    /\ Top.pc = "start"
    /\ running' = UpdateRunning(Top.ex, TRUE)
    /\ stack' = SetTop(EnterArtifacts(Top, 1))
    /\ lg' = lg \o << [run |-> Top.id, line |-> "info"] >>
                \o StepLine(Top, EnterArtifacts(Top, 1), 1)
    /\ trace' = Append(trace, Event(Top, "persist_start", 0, 0, TRUE, FALSE))
    /\ UNCHANGED << files, built, chan, sent, tmpDir, containers, faults, result >>
    /\ UNCHANGED offRun

\* Runner::artifacts: the transfer of one artifact of the current anchor.
TransferArtifact ==
    /\ stack # << >>
    /\ Top.pc \in {"pre", "post"}
    /\ Top.a <= Len(Pip(Top).artifacts)
    /\ \E ok \in Outcomes :
        LET f == Top
            artifact == Pip(f).artifacts[f.a]
            aborts == Aborts(artifact, ok)
            next == IF f.pc = "pre" THEN EnterArtifacts(f, f.a + 1)
                    ELSE [f EXCEPT !.a = NextArtifact(Pip(f), Anchor(f), f.a + 1)]
        IN  /\ faults' = Fault(ok)
            /\ lg' = lg \o << [run |-> f.id, line |-> "copy"] >>
                        \o (IF aborts THEN << ErrorLine(f, "transfer") >>
                            ELSE IF f.pc = "pre" THEN StepLine(f, next, 1)
                            ELSE << >>)
            /\ stack' = SetTop(IF aborts THEN Unwind(f) ELSE next)
            /\ trace' = Append(trace,
                   Event(f, "artifact", IF f.pc = "pre" THEN 0 ELSE f.i, f.a, ok, FALSE))
    /\ UNCHANGED << files, built, running, chan, sent, tmpDir, containers, result >>
    /\ UNCHANGED offRun

\* Runner::steps after the artifacts of a step: the stop-signal check, then
\* the next step.
EndStep ==
    /\ stack # << >>
    /\ Top.pc = "post"
    /\ Top.a > Len(Pip(Top).artifacts)
    /\ LET f == Top
           next == EnterSteps(f, f.i + 1)
       IN  /\ chan' = Received
           /\ stack' = SetTop(IF StopSignalled THEN Unwind(f) ELSE next)
           /\ lg' = lg \o (IF StopSignalled THEN << ErrorLine(f, "stop") >>
                           ELSE StepLine(f, next, f.i + 1))
           /\ trace' = Append(trace, Event(f, "step_end", f.i, 0, TRUE, StopSignalled))
    /\ UNCHANGED << files, built, running, sent, tmpDir, containers, faults, result >>
    /\ UNCHANGED offRun

\* Variant of ChildExec: the child is given the caller's executor state.
ChildExecShared(parent) == parent.ex

\* The executor state Runner::call gives a child: EmptyExec::atom().
ChildExec(parent) == "Empty"

\* Runner::call: the next child Runner is built (the pipeline is read and
\* parsed, its platform is created) and its run begins; a build error leaves
\* the step.
Call ==
    /\ stack # << >>
    /\ Top.pc = "call"
    /\ Len(stack) < MaxDepth
    /\ \E ok \in Outcomes :
        LET f == Top
            callee == Pip(f).steps[f.i].call[f.j]
            id == Len(built) + 1
        IN  /\ faults' = Fault(ok)
            /\ trace' = Append(trace, Event(f, "call", f.i, f.j, ok, FALSE))
            /\ IF ok
               THEN /\ stack' = Append(SetTop([f EXCEPT !.pc = "wait"]),
                                       Runner(id, callee, ChildExec(f)))
                    /\ built' = Append(built, [up |-> f.id, pip |-> callee])
                    /\ tmpDir' = IF files[callee].runs_on = MACHINE
                                 THEN "present" ELSE tmpDir
                    /\ containers' = IF files[callee].runs_on = DOCKER
                                     THEN containers \cup {id} ELSE containers
                    /\ lg' = lg
               ELSE /\ stack' = SetTop(Unwind(f))
                    /\ lg' = Append(lg, ErrorLine(f, "build"))
                    /\ UNCHANGED << built, tmpDir, containers >>
    /\ UNCHANGED << files, running, chan, sent, result >>
    /\ UNCHANGED offRun

\* Runner::call after the child's run was awaited: its error leaves the step,
\* otherwise the stop-signal check, then the next call or Runner::sh.
CallReturn ==
    /\ stack # << >>
    /\ Top.pc = "ret"
    /\ LET f == [Top EXCEPT !.ret = "none"]
           failed == Top.ret = "err"
           stop == ~failed /\ StopSignalled
           next == IF f.j + 1 <= Len(Pip(f).steps[f.i].call)
                   THEN [f EXCEPT !.pc = "call", !.j = f.j + 1]
                   ELSE EnterSh(f)
       IN  /\ chan' = IF failed THEN chan ELSE Received
           /\ stack' = SetTop(IF failed \/ stop THEN Unwind(f) ELSE next)
           /\ lg' = lg \o (IF failed THEN << ErrorLine(f, "dispose") >>
                           ELSE IF stop THEN << ErrorLine(f, "stop") >>
                           ELSE << >>)
           /\ trace' = Append(trace, Event(f, "called", f.i, f.j, ~failed, stop))
    /\ UNCHANGED << files, built, running, sent, tmpDir, containers, faults, result >>
    /\ UNCHANGED offRun

\* Runner::sh: one command on the platform, then the stop-signal check.
Sh ==
    /\ stack # << >>
    /\ Top.pc = "sh"
    /\ \E ok \in Outcomes :
        LET f == Top
            failed == ShFails(ok)
            stop == ~failed /\ StopSignalled
            next == IF f.k + 1 <= Len(Pip(f).steps[f.i].commands)
                    THEN [f EXCEPT !.k = f.k + 1]
                    ELSE EnterPost(f)
        IN  /\ faults' = Fault(ok)
            /\ chan' = IF failed THEN chan ELSE Received
            /\ stack' = SetTop(IF failed \/ stop THEN Unwind(f) ELSE next)
            /\ lg' = lg \o (IF failed THEN << ErrorLine(f, "shell") >>
                            ELSE IF stop THEN << ErrorLine(f, "stop") >>
                            ELSE << >>)
            /\ trace' = Append(trace, Event(f, "sh", f.i, f.k, ok, stop))
    /\ UNCHANGED << files, built, running, sent, tmpDir, containers, result >>
    /\ UNCHANGED offRun

\* Runner::run: persist_end.
PersistEnd ==
    /\ stack # << >>
    /\ Top.pc = "end"
    /\ running' = UpdateRunning(Top.ex, FALSE)
    /\ stack' = SetTop([Top EXCEPT !.pc = "dispose"])
    /\ trace' = Append(trace, Event(Top, "persist_end", 0, 0, TRUE, FALSE))
    /\ UNCHANGED << files, built, chan, sent, lg, tmpDir, containers, faults, result >>
    /\ UNCHANGED offRun

\* Runner::dispose: whether this Runner disposes its platform.
Disposes(f) == Pip(f).dispose

\* What Runner::run returns to its caller given the result of Runner::dispose.
RunResult(disposed) == IF disposed THEN "ok" ELSE "err"

\* Runner::run: Runner::dispose, whose result is the result of the run; the
\* caller (the calling step of the parent, or the run thread) receives it.
Dispose ==
    /\ stack # << >>
    /\ Top.pc = "dispose"
    /\ \E ok \in (IF Disposes(Top) THEN Outcomes ELSE {TRUE}) :
        LET f == Top
            rest == SubSeq(stack, 1, Len(stack) - 1)
            removes == Disposes(f) /\ ok
        IN  /\ faults' = Fault(ok)
            /\ tmpDir' = IF removes /\ Pip(f).runs_on = MACHINE
                         THEN "removed" ELSE tmpDir
            /\ containers' = IF removes /\ Pip(f).runs_on = DOCKER
                             THEN containers \ {f.id} ELSE containers
            /\ trace' = Append(trace,
                   Event(f, "dispose", 0, IF Disposes(f) THEN 1 ELSE 0, ok, FALSE))
            /\ IF rest = << >>
               THEN /\ stack' = << >>
                    /\ result' = RunResult(ok)
               ELSE /\ stack' = [rest EXCEPT ![Len(rest)] =
                                    [@ EXCEPT !.pc = "ret", !.ret = RunResult(ok)]]
                    /\ result' = result
    /\ UNCHANGED << files, built, running, chan, sent, lg >>
    /\ UNCHANGED offRun

\* ------------------------------------------------------------------ Spec
Next ==
    \/ SendCancel
    \/ PersistStart
    \/ TransferArtifact
    \/ EndStep
    \/ Call
    \/ CallReturn
    \/ Sh
    \/ PersistEnd
    \/ Dispose

Spec == Init /\ [][Next]_vars

\* ---------------------------------------------------------------- claims
\* Every step of the model appends exactly one event to the trace, so each
\* reachable trace is a reachable trace extended by its last event: a
\* property of the last event against the events before it, holding in every
\* reachable state, holds of every event of every trace.
Pos == DOMAIN trace
Last == trace[Len(trace)]
Before == 1..(Len(trace) - 1)
OnStack(r) == \E d \in DOMAIN stack : stack[d].id = r
Finished(r) == r \in DOMAIN built /\ ~OnStack(r)
Work == {"artifact", "call", "called", "sh", "step_end"}
KindsBefore(r) == { trace[n].ev : n \in { n \in Before : trace[n].run = r } }

\* C1: in every run of Runner::run, persist_start precedes every artifact and
\* step, persist_end follows the last executed step, and Runner::dispose
\* follows persist_end, also when a step fails; a finished run has disposed.
C1_RunOrder ==
    /\ trace # << >> /\ Last.run # 0 =>
        LET kinds == KindsBefore(Last.run)
        IN  /\ Last.ev = "persist_start" => kinds = {}
            /\ Last.ev \in Work \cup {"persist_end"} =>
                  /\ "persist_start" \in kinds
                  /\ "persist_end" \notin kinds
                  /\ "dispose" \notin kinds
            /\ Last.ev = "dispose" =>
                  /\ "persist_end" \in kinds
                  /\ "dispose" \notin kinds
    /\ \A r \in DOMAIN built :
          Finished(r) => \E n \in Pos : trace[n].run = r /\ trace[n].ev = "dispose"

\* The root run has just disposed its platform after one of its commands failed.
C1_Witness ==
    /\ result # "none"
    /\ Last.run = 1 /\ Last.ev = "dispose" /\ Last.x = 1
    /\ \E n \in Pos : trace[n].run = 1 /\ trace[n].ev = "sh" /\ ~trace[n].ok

\* The place of an event in the order of its Runner's own events: the
\* artifacts before the steps, then step by step the calls, the commands,
\* the artifacts after the step and the end of the step.
Rank(e) ==
    CASE e.ev = "artifact" /\ e.i = 0 -> e.x
      [] e.ev = "call" -> e.i * 1000 + 100 + 2 * e.x
      [] e.ev = "called" -> e.i * 1000 + 101 + 2 * e.x
      [] e.ev = "sh" -> e.i * 1000 + 400 + e.x
      [] e.ev = "artifact" /\ e.i > 0 -> e.i * 1000 + 700 + e.x
      [] OTHER -> e.i * 1000 + 999

\* The last event of Runner r before the last event of the trace.
LastOf(r) ==
    LET own == { n \in Before : trace[n].run = r }
    IN  trace[CHOOSE n \in own : \A m \in own : m <= n]

\* C2: within one Runner the artifacts before the steps precede all steps,
\* the steps run in declaration order, and inside a step the calls run in
\* list order, each child running (with its descendants) to its end while
\* the caller waits in that call, then every command in list order, then the
\* artifacts after the step, before the next step.
C2_Order ==
    trace # << >> /\ Last.run # 0 =>
        LET r == Last.run
            step == files[built[r].pip].steps[Last.i]
            up == built[r].up
        IN  /\ Last.ev \in Work =>
                \A n \in Before :
                    trace[n].run = r /\ trace[n].ev \in Work
                        => Rank(trace[n]) < Rank(Last)
            /\ Last.ev = "call" =>
                \A j \in 1..(Last.x - 1) : \E n \in Before :
                    trace[n].run = r /\ trace[n].ev = "called"
                        /\ trace[n].i = Last.i /\ trace[n].x = j
            /\ Last.ev = "sh" =>
                /\ \A j \in 1..Len(step.call) : \E n \in Before :
                      trace[n].run = r /\ trace[n].ev = "called"
                          /\ trace[n].i = Last.i /\ trace[n].x = j
                /\ \A k \in 1..(Last.x - 1) : \E n \in Before :
                      trace[n].run = r /\ trace[n].ev = "sh"
                          /\ trace[n].i = Last.i /\ trace[n].x = k
            /\ Last.ev = "step_end" \/ (Last.ev = "artifact" /\ Last.i > 0) =>
                \A k \in 1..Len(step.commands) : \E n \in Before :
                    trace[n].run = r /\ trace[n].ev = "sh" /\ trace[n].ok
                        /\ trace[n].i = Last.i /\ trace[n].x = k
            /\ Last.i > 1 =>
                \E n \in Before :
                    trace[n].run = r /\ trace[n].ev = "step_end"
                        /\ trace[n].i = Last.i - 1
            /\ up # 0 =>
                /\ LastOf(up).ev = "call" /\ LastOf(up).ok
                /\ files[built[up].pip].steps[LastOf(up).i].call[LastOf(up).x]
                      = built[r].pip
            /\ Last.ev = "called" =>
                \E c \in DOMAIN built :
                    /\ built[c].up = r
                    /\ built[c].pip = step.call[Last.x]
                    /\ Finished(c)
                    /\ LastOf(c).ev = "dispose"
                    /\ \A n \in Before :
                          trace[n].run = r => \E m \in Before :
                              n < m /\ trace[m].run = c /\ trace[m].ev = "persist_start"

\* The root's last command has run after a child and a grandchild ran and
\* after the second call of the first step.
C2_Witness ==
    /\ trace # << >>
    /\ Last.run = 1 /\ Last.ev = "sh" /\ Last.i = 2 /\ Last.x = 2
    /\ \E c \in DOMAIN built : built[c].up > 1
    /\ \E n \in Pos : trace[n].run = 1 /\ trace[n].ev = "called" /\ trace[n].x = 2
    /\ \E n \in Pos : trace[n].run = 1 /\ trace[n].ev = "artifact" /\ trace[n].i = 1

\* Whether the event at position n is a failure inside its Runner: a failed
\* command, a failed transfer of an artifact whose errors are not ignored, or
\* a stop-signal check that received a token.
Failure(n) ==
    \/ trace[n].ev = "sh" /\ ~trace[n].ok
    \/ /\ trace[n].ev = "artifact" /\ ~trace[n].ok
       /\ ~files[built[trace[n].run].pip].artifacts[trace[n].x].ignore_errors
    \/ trace[n].stop

\* C3: a failure inside a child Runner fails the calling step of its parent:
\* after it the parent performs no call, command or artifact and ends no
\* step, it only receives the child's return and ends its run.
C3_ChildFailurePropagates ==
    \A n \in Pos :
        trace[n].run # 0 /\ built[trace[n].run].up # 0 /\ Failure(n) =>
            \A m \in Pos :
                m > n /\ trace[m].run = built[trace[n].run].up =>
                    trace[m].ev \in {"called", "persist_end", "dispose"}

\* C4: a cancel token pushed while the root Runner executes step s: no
\* effect of a later step of the root follows, and when the run has returned
\* the root has invoked dispose and running is false.
C4_CancelStopsRoot ==
    \A n \in Pos :
        trace[n].ev = "cancel" /\ trace[n].i >= 1 =>
            /\ \A m \in Pos :
                  m > n /\ trace[m].run = 1 => trace[m].i <= trace[n].i
            /\ result # "none" =>
                  /\ \E m \in Pos : trace[m].run = 1 /\ trace[m].ev = "dispose"
                  /\ ~running

\* A command, call or artifact group of a step that completed.
Unit(e) ==
    \/ e.ev = "sh" /\ e.ok
    \/ e.ev = "called"
    \/ e.ev = "step_end"

\* C5: after a cancel token is pushed, every Runner that is executing a step
\* completes at most one more command, call or artifact group.
C5_AtMostOneMore ==
    \A n \in Pos :
        trace[n].ev = "cancel" =>
            \A r \in trace[n].in :
                Cardinality({ m \in Pos :
                    m > n /\ trace[m].run = r /\ Unit(trace[m]) }) <= 1

\* C6: while a Runner on a Machine platform has not finished, the per-run
\* temporary directory exists: no Runner called below it has removed it.
C6_ParentPlatformKept ==
    \A d \in DOMAIN stack :
        Pip(stack[d]).runs_on = MACHINE => tmpDir = "present"

\* C7: a dispose failure is not returned by Runner::run: neither the run
\* thread nor a calling step receives an error from a run.
C7_DisposeNotReraised ==
    /\ result # "err"
    /\ \A d \in DOMAIN stack : stack[d].ret # "err"

\* Runner r has performed persist_end and then dispose after position n.
EndsAfter(r, n) ==
    \E e \in Pos :
        /\ n < e /\ trace[e].run = r /\ trace[e].ev = "persist_end"
        /\ \E d \in Pos : e < d /\ trace[d].run = r /\ trace[d].ev = "dispose"

\* C8: after a command fails in a Runner, that Runner performs no further
\* call, command, artifact or step, the error is in the log, and the Runner,
\* once finished, has performed persist_end and then dispose.
C8_ShellFailure ==
    \A n \in Pos :
        trace[n].ev = "sh" /\ ~trace[n].ok =>
            LET r == trace[n].run
            IN  /\ \A m \in Pos :
                      m > n /\ trace[m].run = r =>
                          trace[m].ev \in {"persist_end", "dispose"}
                /\ \E l \in DOMAIN lg : lg[l] = ErrorLine([id |-> r], "shell")
                /\ Finished(r) => EndsAfter(r, n)

\* A child Runner has finished after its command failed.
C8_Witness ==
    \E n \in Pos :
        /\ trace[n].ev = "sh" /\ ~trace[n].ok
        /\ built[trace[n].run].up # 0
        /\ Finished(trace[n].run)

\* C9: when an artifact before the steps fails to transfer and its errors
\* are not ignored, the error is in the log, the Runner executes no step,
\* and, once finished, it has performed persist_end and then dispose.
C9_PreArtifactFailure ==
    \A n \in Pos :
        trace[n].ev = "artifact" /\ trace[n].i = 0 /\ Failure(n) =>
            LET r == trace[n].run
            IN  /\ \A m \in Pos : trace[m].run = r => trace[m].i = 0
                /\ \A m \in Pos :
                      m > n /\ trace[m].run = r =>
                          trace[m].ev \in {"persist_end", "dispose"}
                /\ \E l \in DOMAIN lg : lg[l] = ErrorLine([id |-> r], "transfer")
                /\ Finished(r) => EndsAfter(r, n)

\* The root run has returned after its artifact before the steps failed.
C9_Witness ==
    /\ result # "none"
    /\ \E n \in Pos :
          trace[n].run = 1 /\ trace[n].ev = "artifact" /\ trace[n].i = 0 /\ Failure(n)

\* C10: every Runner below the root has the no-op executor state, and the
\* running flag is true from the root's persist_start to the root's
\* persist_end and false after it, whatever the children do.
C10_OnlyRootPersists ==
    LET started == \E n \in Pos : trace[n].run = 1 /\ trace[n].ev = "persist_start"
        ended == \E n \in Pos : trace[n].run = 1 /\ trace[n].ev = "persist_end"
    IN  /\ \A d \in DOMAIN stack : d > 1 => stack[d].ex = "Empty"
        /\ started /\ ~ended => running
        /\ ended => ~running

\* A grandchild Runner has performed persist_end while the flag is true.
C10_Witness ==
    /\ Len(stack) = 3
    /\ Top.pc = "dispose"
    /\ running

\* ------------------------------------------------------------ artifacts
\* Whether a declared artifact is one Runner::artifacts has to transfer at
\* an anchor: its `after` equals the anchor, its method is PUSH or GET and
\* both paths are present.
Eligible(artifact, anchor) ==
    /\ artifact.after = anchor
    /\ artifact.method \in {PUSH, GET}
    /\ artifact.from /\ artifact.to

\* The anchor of the group of artifacts an event belongs to.
AnchorOf(e) ==
    IF e.i = 0 THEN None ELSE files[built[e.run].pip].steps[e.i].name

\* C14: Runner::artifacts transfers exactly the artifacts of the current
\* anchor whose method is PUSH or GET and whose paths are present, in
\* declaration order, the others are skipped without error; a failed
\* transfer ends the artifacts and steps of the Runner when ignore_errors is
\* false and is followed by the rest of the processing when it is true.
C14_Artifacts ==
    trace # << >> /\ Last.run # 0 =>
        LET r == Last.run
            arts == files[built[r].pip].artifacts
            group == { n \in Before : trace[n].run = r /\ trace[n].ev = "artifact"
                                          /\ trace[n].i = Last.i }
            eligible == { a \in DOMAIN arts : Eligible(arts[a], AnchorOf(Last)) }
        IN  /\ Last.ev = "artifact" =>
                /\ Last.x \in eligible
                /\ \A a \in eligible : a < Last.x =>
                      \E n \in group : trace[n].x = a
            /\ Last.ev = "step_end" =>
                \A a \in eligible : \E n \in group : trace[n].x = a
            /\ \A n \in Before :
                  /\ trace[n].run = r /\ trace[n].ev = "artifact"
                  /\ ~trace[n].ok /\ ~arts[trace[n].x].ignore_errors
                  => Last.ev \in {"persist_end", "dispose"}
            /\ /\ KindsBefore(r) # {}
               /\ LastOf(r).ev = "artifact" /\ ~LastOf(r).ok
               /\ arts[LastOf(r).x].ignore_errors
               => Last.ev \in Work

\* The root has ended its first step after the transfer of an artifact whose
\* errors are ignored failed, having skipped the artifacts that cannot be
\* transferred.
C14_Witness ==
    /\ trace # << >>
    /\ Last.run = 1 /\ Last.ev = "step_end" /\ Last.i = 1
    /\ \E n \in Pos : trace[n].run = 1 /\ trace[n].ev = "artifact"
                           /\ trace[n].x = 3 /\ ~trace[n].ok

\* The artifacts of the Runner of event e that were transferred in the group
\* of e (before the steps, or after the step of e), up to e.
GroupOf(e) ==
    { trace[n].x : n \in { m \in Pos : /\ trace[m].run = e.run
                                        /\ trace[m].ev = "artifact"
                                        /\ trace[m].i = e.i } }

\* C23: an artifact is transferred only at the anchor equal to its `after`
\* (None before the steps and after a step without name, the name after a
\* named step); when a step has ended, the artifacts transferred after it
\* are exactly the transferable ones whose `after` equals the optional name
\* of the step, so those of `after` None are transferred again after a step
\* without name; an artifact whose `after` is the name of no step is never
\* transferred.
C23_Anchoring ==
    \A n \in Pos :
        LET e == trace[n]
            p == files[built[e.run].pip]
            names == { p.steps[i].name : i \in DOMAIN p.steps }
        IN  /\ e.ev = "artifact" =>
                /\ p.artifacts[e.x].after = AnchorOf(e)
                /\ p.artifacts[e.x].after \in names \cup {None}
            /\ e.ev = "step_end" /\ n = Len(trace) =>
                GroupOf(e) = { a \in DOMAIN p.artifacts :
                                  /\ p.artifacts[a].after = p.steps[e.i].name
                                  /\ CanContinue(p.artifacts[a]) }

\* The root has ended its step without name after transferring again the
\* artifact it had transferred before the steps.
C23_Witness ==
    /\ trace # << >>
    /\ Last.run = 1 /\ Last.ev = "step_end" /\ Last.i = 2
    /\ files["root"].steps[2].name = None
    /\ \E n, m \in Pos :
          /\ trace[n].run = 1 /\ trace[n].ev = "artifact"
          /\ trace[n].i = 0 /\ trace[n].x = 1
          /\ trace[m].run = 1 /\ trace[m].ev = "artifact"
          /\ trace[m].i = 2 /\ trace[m].x = 1

\* ------------------------------------------------------- run context
\* Text is a sequence of symbols. The tokens of bld_config::definitions are
\* single symbols; a name is a sequence of letters, and the token of a name
\* is the prefix followed by the name, as format!("{ENV_TOKEN}{key}") makes it.
ENV_TOKEN == "$env"
VAR_TOKEN == "$var"
RUN_PROPS_ID == "$id"
RUN_PROPS_START_TIME == "$time"
Letters == {"A", "B"}
Alphabet == {ENV_TOKEN, VAR_TOKEN, RUN_PROPS_ID, RUN_PROPS_START_TIME, "x"} \cup Letters

\* Length of the commands of the pipelines.
MaxLen == 3

Texts == UNION { [1..n -> Alphabet] : n \in 1..MaxLen }

\* The run id and the run start time of the run.
RunId == << "r" >>
RunStartTime == << "t" >>

\* A declared environment entry or variable: name and default_value.
Declared(name, default_value) == [name |-> name, default_value |-> default_value]

\* The declarations the pipeline files may hold.
RootEnvironments ==
    { << >>,
      << Declared(<<"A">>, <<"1">>) >>,
      << Declared(<<"A">>, <<"1">>), Declared(<<"A", "B">>, <<"2">>) >> }
RootVariables == { << >>, << Declared(<<"B">>, <<"3">>) >> }
ChildDeclares ==
    { [environment |-> << >>, variables |-> << >>],
      [environment |-> << Declared(<<"A">>, <<"4">>) >>,
       variables |-> << Declared(<<"B">>, <<"5">>) >>] }

\* A HashMap<String, String> with the keys S.
MapOf(S, value) == [n \in S |-> value]
NoMap == MapOf({}, << >>)

\* What the caller may supply in ExecInfo.
SuppliedEnvironments ==
    {NoMap} \cup { MapOf({<<"A">>}, v) :
                     v \in { <<"6">>, <<ENV_TOKEN, "A">>, <<VAR_TOKEN, "B">> } }
SuppliedVariables == { NoMap, MapOf({<<"B">>}, <<"7">>) }

\* The HashMap RunnerBuilder::build collects: every declared name, with the
\* supplied value when `supplied` has the name and the default otherwise (of
\* the last declaration of the name).
Resolve(declared, supplied) ==
    [n \in { declared[i].name : i \in DOMAIN declared } |->
        IF n \in DOMAIN supplied THEN supplied[n]
        ELSE LET last == CHOOSE i \in DOMAIN declared :
                    /\ declared[i].name = n
                    /\ \A j \in DOMAIN declared : declared[j].name = n => j <= i
             IN  declared[last].default_value]

\* str::replace: every non-overlapping occurrence of `pat`, left to right.
RECURSIVE Replace(_, _, _)
Replace(txt, pat, to) ==
    IF Len(txt) < Len(pat) THEN txt
    ELSE IF SubSeq(txt, 1, Len(pat)) = pat
         THEN to \o Replace(SubSeq(txt, Len(pat) + 1, Len(txt)), pat, to)
         ELSE << Head(txt) >> \o Replace(Tail(txt), pat, to)

\* Runner::apply_run_properties.
ApplyRunProperties(txt) ==
    Replace(Replace(txt, << RUN_PROPS_ID >>, RunId),
            << RUN_PROPS_START_TIME >>, RunStartTime)

\* The first loop of apply_environment / apply_variables: the entries of the
\* resolved map, in the order `keys` the HashMap iterates them.
RECURSIVE ReplaceKeys(_, _, _, _)
ReplaceKeys(txt, token, map, keys) ==
    IF keys = << >> THEN txt
    ELSE ReplaceKeys(Replace(txt, << token >> \o Head(keys), map[Head(keys)]),
                     token, map, Tail(keys))

\* The second loop: the declarations, in order, with their defaults.
RECURSIVE ReplaceDefaults(_, _, _)
ReplaceDefaults(txt, token, declared) ==
    IF declared = << >> THEN txt
    ELSE ReplaceDefaults(
             Replace(txt, << token >> \o Head(declared).name,
                     Head(declared).default_value),
             token, Tail(declared))

\* Runner::apply_environment and Runner::apply_variables.
ApplyEnvironment(txt, env, keys, declared) ==
    ReplaceDefaults(ReplaceKeys(txt, ENV_TOKEN, env, keys), ENV_TOKEN, declared)
ApplyVariables(txt, variables, keys, declared) ==
    ReplaceDefaults(ReplaceKeys(txt, VAR_TOKEN, variables, keys), VAR_TOKEN, declared)

\* Runner::apply_context of a Runner r for the iteration orders of its maps.
ApplyContext(txt, r, envKeys, varKeys) ==
    ApplyVariables(
        ApplyEnvironment(ApplyRunProperties(txt), r.env, envKeys,
                         decls[r.pip].environment),
        r.vars, varKeys, decls[r.pip].variables)

\* The orders in which a HashMap with the keys S may be iterated.
Orders(S) ==
    { o \in [1..Cardinality(S) -> S] : \A i, j \in DOMAIN o : o[i] = o[j] => i = j }

\* The pipeline files and the ExecInfo: root calls child in its only step,
\* and both run the same command.
CtxInit ==
    /\ \E re \in RootEnvironments, rv \in RootVariables, c \in ChildDeclares,
          command \in Texts :
          decls = [p \in {"root", "child"} |->
                     IF p = "root"
                     THEN [environment |-> re, variables |-> rv, command |-> command]
                     ELSE [environment |-> c.environment, variables |-> c.variables,
                           command |-> command]]
    /\ \E se \in SuppliedEnvironments, sv \in SuppliedVariables :
          info = [environment |-> se, variables |-> sv]
    /\ runners = << >>
    /\ out = << >>
    /\ BuilderIdle
    /\ RunIdle
    /\ running = FALSE
    /\ SockIdle
    /\ SupIdle
    /\ CallIdle

\* A Runner with its resolved environment and variables.
RunContext(pip, environment, variables) ==
    [pip |-> pip,
     env |-> Resolve(decls[pip].environment, environment),
     vars |-> Resolve(decls[pip].variables, variables)]

\* PipelineInfo::build_runner: the root Runner is built from the ExecInfo.
BuildRoot ==
    /\ decls # << >>
    /\ runners = << >>
    /\ runners' = << RunContext("root", info.environment, info.variables) >>
    /\ UNCHANGED << decls, info, out >>
    /\ UNCHANGED offCtx

\* Runner::call: the child is built with the caller's environment and
\* variables handles.
CallChild ==
    /\ Len(runners) = 1
    /\ out = << >>
    /\ runners' = Append(runners,
                         RunContext("child", runners[1].env, runners[1].vars))
    /\ UNCHANGED << decls, info, out >>
    /\ UNCHANGED offCtx

\* Runner::sh: the command of a Runner is interpolated and reaches the
\* platform: first the child's, then, when its call returned, the caller's.
ShCommand ==
    /\ Len(runners) = 2
    /\ Len(out) < 2
    /\ LET r == runners[2 - Len(out)]
       IN  \E envKeys \in Orders(DOMAIN r.env), varKeys \in Orders(DOMAIN r.vars) :
              out' = Append(out, [pip |-> r.pip,
                                  txt |-> ApplyContext(decls[r.pip].command, r,
                                                       envKeys, varKeys)])
    /\ UNCHANGED << decls, info, runners >>
    /\ UNCHANGED offCtx

CtxNext ==
    \/ BuildRoot
    \/ CallChild
    \/ ShCommand

CtxSpec == CtxInit /\ [][CtxNext]_vars

\* The token of a name.
Token(token, name) == << token >> \o name

\* The Runner that ran the command of an entry of `out`.
RunnerOf(e) == IF e.pip = "root" THEN runners[1] ELSE runners[2]

\* C11: a child Runner inherits the caller's resolved environment and
\* variables: a child command that is the token of a name of the caller's
\* resolved environment (variables) reaches the platform as the caller's
\* value of that name, whether or not the child pipeline declares the name.
C11_ChildInherits ==
    \A k \in DOMAIN out :
        out[k].pip = "child" =>
            /\ \A X \in DOMAIN runners[1].env :
                  decls["child"].command = Token(ENV_TOKEN, X)
                      => out[k].txt = runners[1].env[X]
            /\ \A X \in DOMAIN runners[1].vars :
                  decls["child"].command = Token(VAR_TOKEN, X)
                      => out[k].txt = runners[1].vars[X]

\* The longest sequence of letters a text begins with.
RECURSIVE NameAt(_)
NameAt(txt) ==
    IF txt # << >> /\ Head(txt) \in Letters
    THEN << Head(txt) >> \o NameAt(Tail(txt))
    ELSE << >>

\* The interpolation of a text as the tokens define it: the text is read
\* once, left to right; the run property tokens are replaced by the run id
\* and the run start time, the token of a name by the value of the name in
\* the environment E (the variables V) when E (V) has the name, and every
\* other token is kept as it is.
RECURSIVE Interpolated(_, _, _)
Interpolated(txt, E, V) ==
    IF txt = << >> THEN << >>
    ELSE LET name == NameAt(Tail(txt))
             rest == SubSeq(txt, Len(name) + 2, Len(txt))
         IN  CASE Head(txt) = RUN_PROPS_ID -> RunId \o Interpolated(Tail(txt), E, V)
               [] Head(txt) = RUN_PROPS_START_TIME ->
                     RunStartTime \o Interpolated(Tail(txt), E, V)
               [] Head(txt) = ENV_TOKEN /\ name \in DOMAIN E ->
                     E[name] \o Interpolated(rest, E, V)
               [] Head(txt) = VAR_TOKEN /\ name \in DOMAIN V ->
                     V[name] \o Interpolated(rest, E, V)
               [] OTHER -> << Head(txt) >> \o Interpolated(Tail(txt), E, V)

\* C12: every interpolated command is the command with each environment
\* token replaced by the resolved environment's value iff its name is a key,
\* each variable token by the resolved variables' value iff its name is a
\* key, the run property tokens by the run id and the run start time, and
\* every other token verbatim.
C12_Interpolation ==
    \A k \in DOMAIN out :
        out[k].txt = Interpolated(decls[out[k].pip].command,
                                  RunnerOf(out[k]).env, RunnerOf(out[k]).vars)

\* Whether a resolved map is the declarations overlaid with what the caller
\* supplied.
Overlaid(map, declared, supplied) ==
    /\ DOMAIN map = { declared[i].name : i \in DOMAIN declared }
    /\ \A n \in DOMAIN map :
          IF n \in DOMAIN supplied THEN map[n] = supplied[n]
          ELSE \E i \in DOMAIN declared :
                  declared[i].name = n /\ map[n] = declared[i].default_value

\* C13: the resolved environment and variables of the root Runner map every
\* declared name to the supplied value when the caller supplies the name and
\* to the declared default otherwise, and a command that is the token of a
\* declared name the caller supplies reaches the platform as the caller's
\* value.
C13_CallerOverrides ==
    /\ runners # << >> =>
          /\ Overlaid(runners[1].env, decls["root"].environment, info.environment)
          /\ Overlaid(runners[1].vars, decls["root"].variables, info.variables)
    /\ \A k \in DOMAIN out :
          out[k].pip = "root" =>
              /\ \A X \in DOMAIN runners[1].env \cap DOMAIN info.environment :
                    decls["root"].command = Token(ENV_TOKEN, X)
                        => out[k].txt = info.environment[X]
              /\ \A X \in DOMAIN runners[1].vars \cap DOMAIN info.variables :
                    decls["root"].command = Token(VAR_TOKEN, X)
                        => out[k].txt = info.variables[X]

\* C24: text inserted by a replacement is not substituted again: a command
\* that is the environment token of a resolved name whose value is the token
\* of another resolved environment name or of a resolved variable reaches the
\* platform as that value, the inner token verbatim.
C24_NonRecursive ==
    \A k \in DOMAIN out :
        LET r == RunnerOf(out[k])
        IN  \A X \in DOMAIN r.env :
               /\ decls[out[k].pip].command = Token(ENV_TOKEN, X)
               /\ \/ \E Y \in DOMAIN r.vars : r.env[X] = Token(VAR_TOKEN, Y)
                  \/ \E Y \in DOMAIN r.env \ {X} : r.env[X] = Token(ENV_TOKEN, Y)
               => out[k].txt = r.env[X]

\* C25: the interpolated command is determined by the command, the run
\* properties, the resolved maps and the declarations: whatever the order in
\* which the resolved maps are iterated, apply_context gives the text that
\* reached the platform.
C25_OrderIndependent ==
    \A k \in DOMAIN out :
        LET r == RunnerOf(out[k])
        IN  \A envKeys \in Orders(DOMAIN r.env), varKeys \in Orders(DOMAIN r.vars) :
               ApplyContext(decls[out[k].pip].command, r, envKeys, varKeys)
                   = out[k].txt

\* ----------------------------------------------------- RunnerBuilder
\* The fields of RunnerBuilder, each None until its method is called.
Fields == {"run_id", "run_start_time", "cfg", "ex", "lg", "prx", "pip", "cm",
           "env", "vars"}

\* Variant of Supplied: an absent field is taken as present.
SuppliedAlways(b, field) == TRUE

\* Whether a field of the builder is Some.
Supplied(b, field) == field \in b

\* The error of `ok_or_else` for a field that is None.
Missing(field) ==
    CASE field = "run_id" -> "no run id provided"
      [] field = "cfg" -> "no bld config instance provided"
      [] field = "lg" -> "no logger instance provided"
      [] field = "prx" -> "no pipeline file system proxy provided"
      [] field = "pip" -> "no pipeline provided"
      [] field = "env" -> "no environment instance provided"
      [] field = "vars" -> "no variables instance provided"
      [] field = "run_start_time" -> "no run start time provided"
      [] field = "ex" -> "no executor instance provided"

\* What RunnerBuilder::build returns: Ok with the Runner, or the error.
Ok(runner) == [ok |-> TRUE, err |-> None, runner |-> runner]
Err(e) == [ok |-> FALSE, err |-> e, runner |-> None]

\* RunnerBuilder::build up to the creation of the platform, for a builder b
\* and the result `read` of reading and parsing the pipeline ("ok", "read"
\* or "parse"): the error that ends it, or None.
BeforePlatform(b, read) ==
    IF ~Supplied(b, "run_id") THEN Missing("run_id")
    ELSE IF ~Supplied(b, "cfg") THEN Missing("cfg")
    ELSE IF ~Supplied(b, "lg") THEN Missing("lg")
    ELSE IF ~Supplied(b, "prx") THEN Missing("prx")
    ELSE IF ~Supplied(b, "pip") THEN Missing("pip")
    ELSE IF read # "ok" THEN read
    ELSE IF ~Supplied(b, "env") THEN Missing("env")
    ELSE IF ~Supplied(b, "vars") THEN Missing("vars")
    ELSE None

\* RunnerBuilder::build, `plat` being the result of Machine::new or
\* Container::new.
Build(b, read, plat) ==
    IF BeforePlatform(b, read) # None THEN Err(BeforePlatform(b, read))
    ELSE IF ~plat THEN Err("platform")
    ELSE IF ~Supplied(b, "run_start_time") THEN Err(Missing("run_start_time"))
    ELSE IF ~Supplied(b, "ex") THEN Err(Missing("ex"))
    ELSE Ok("Runner")

\* Whether RunnerBuilder::build created the platform before it returned.
Created(b, read, plat) == BeforePlatform(b, read) = None /\ plat

\* A fresh builder: RunnerBuilder::default().
BldInit ==
    /\ BuilderIdle
    /\ CtxIdle
    /\ RunIdle
    /\ running = FALSE
    /\ SockIdle
    /\ SupIdle
    /\ CallIdle

\* A builder method (run_id, run_start_time, config, execution, logger,
\* pipeline, proxy, receiver with Some, environment, variables).
Supply(field) ==
    /\ outcome = << >>
    /\ field \notin builder
    /\ builder' = builder \cup {field}
    /\ UNCHANGED << outcome, platform >>
    /\ UNCHANGED offBld

\* RunnerBuilder::build, which consumes the builder.
BuildRunner ==
    /\ outcome = << >>
    /\ \E read \in {"ok", "read", "parse"}, plat \in BOOLEAN :
          /\ outcome' = << [read |-> read, plat |-> plat,
                            res |-> Build(builder, read, plat)] >>
          /\ platform' = IF Created(builder, read, plat) THEN "created" ELSE "none"
    /\ UNCHANGED builder
    /\ UNCHANGED offBld

BldNext ==
    \/ \E field \in Fields : Supply(field)
    \/ BuildRunner

BldSpec == BldInit /\ [][BldNext]_vars

\* The fields RunnerBuilder::build requires: all but the receiver.
Required == Fields \ {"cm"}

\* C15 as stated: whenever a required field was not supplied, build fails
\* with the error naming a missing field and returns no Runner; with every
\* required field, and without a receiver, it succeeds.
C15_MissingField ==
    outcome # << >> =>
        /\ Required \ builder # {} =>
              /\ ~outcome[1].res.ok
              /\ outcome[1].res.runner = None
              /\ outcome[1].res.err \in { Missing(f) : f \in Required \ builder }
        /\ Required \subseteq builder /\ outcome[1].read = "ok" /\ outcome[1].plat =>
              outcome[1].res.ok /\ outcome[1].res.runner # None

\* The order in which build checks its inputs and performs its operations.
CheckOrder == << "run_id", "cfg", "lg", "prx", "pip", "read", "env", "vars",
                 "platform", "run_start_time", "ex" >>

\* The checks of CheckOrder that fail for the builder and the results of
\* the two operations of `outcome`.
Failing ==
    { n \in DOMAIN CheckOrder :
        CASE CheckOrder[n] = "read" -> outcome[1].read # "ok"
          [] CheckOrder[n] = "platform" -> ~outcome[1].plat
          [] OTHER -> CheckOrder[n] \notin builder }

\* The error of the check at position n of CheckOrder.
ErrorOf(n) ==
    CASE CheckOrder[n] = "read" -> outcome[1].read
      [] CheckOrder[n] = "platform" -> "platform"
      [] OTHER -> Missing(CheckOrder[n])

\* C15 amended: build fails and returns no Runner whenever a required field
\* was not supplied; its error is the one of the first failing check in the
\* order run id, config, logger, proxy, pipeline name, reading and parsing
\* the pipeline, environment, variables, creating the platform, run start
\* time, executor state, so it names the first missing field unless reading,
\* parsing or the platform fails before that field is checked; with every
\* required field and no failing operation it succeeds, also without a
\* receiver.
C15_FirstFailingCheck ==
    outcome # << >> =>
        /\ Required \ builder # {} => ~outcome[1].res.ok
        /\ ~outcome[1].res.ok =>
              /\ outcome[1].res.runner = None
              /\ Failing # {}
              /\ outcome[1].res.err = ErrorOf(Min(Failing))
        /\ Failing = {} => outcome[1].res.ok /\ outcome[1].res.runner # None

\* Build has failed, naming the executor state, for a builder that lacks
\* only the executor state and the receiver.
C15_Witness ==
    /\ outcome # << >>
    /\ builder = Fields \ {"ex", "cm"}
    /\ outcome[1].read = "ok" /\ outcome[1].plat
    /\ ~outcome[1].res.ok
    /\ outcome[1].res.err = Missing("ex")

\* C27: when RunnerBuilder::build has returned the error of a missing
\* required input, no platform (Machine temp directory or Container) has
\* been created for that build.
C27_NoPlatformLeft ==
    /\ outcome # << >>
    /\ ~outcome[1].res.ok
    /\ outcome[1].res.err \in { Missing(field) : field \in Required }
    => platform = "none"

\* ---------------------------------------------------------- exec socket
\* Times are in milliseconds. The interval of the heartbeat timer, the
\* interval of the timer that checks the run, and the time without a ping
\* or pong after which the heartbeat fails.
HeartbeatInterval == 500
ExecInterval == 10000
HeartbeatTimeout == 10000

\* The text frame sent when get_info fails.
ErrorFrame == "Unable to run pipeline"

\* The id of the run of this socket.
RunUuid == 1

\* pipeline_runs::insert: the run row is inserted not running; the Runner
\* marks it running (persist_start).
InsertedRunning == FALSE

\* The actor has started (Actor::started registered the two intervals); no
\* ExecInfo has been received.
SockInit ==
    /\ actor = "started"
    /\ stoppedBy = "none"
    /\ age = 0
    /\ sinceBeat = 0
    /\ phase = 0
    /\ due = {}
    /\ exec = None
    /\ frames = {}
    /\ lines = 0
    /\ pool = {}
    /\ thread = [pc |-> "none", end |-> "none"]
    /\ running = FALSE
    /\ RunIdle
    /\ BuilderIdle
    /\ CtxIdle
    /\ SupIdle
    /\ CallIdle

\* ctx.stop().
Stop(by) ==
    /\ actor' = "stopped"
    /\ stoppedBy' = by

\* ExecutePipelineSocket::scan: the new lines of the log file are sent.
Scanned == IF lines > 0 THEN frames \cup {"log"} ELSE frames

\* Time passes until the next instant at which an interval fires; the
\* callbacks that are due run before time passes again.
Advance ==
    /\ actor = "started"
    /\ due = {}
    /\ age' = age + HeartbeatInterval
    /\ sinceBeat' = sinceBeat + HeartbeatInterval
    /\ phase' = (phase + HeartbeatInterval) % ExecInterval
    /\ due' = {"heartbeat"} \cup
              (IF (phase + HeartbeatInterval) % ExecInterval = 0 THEN {"exec"} ELSE {})
    /\ UNCHANGED << actor, stoppedBy, exec, frames, lines, pool, thread, running >>
    /\ UNCHANGED offSock

\* Variant of HeartbeatFailed: the heartbeat fails at 10 s sharp.
HeartbeatFailedAt(elapsed) == elapsed >= HeartbeatTimeout

\* ExecutePipelineSocket::heartbeat: whether the heartbeat has failed.
HeartbeatFailed(elapsed) == elapsed > HeartbeatTimeout

\* The 500 ms interval: heartbeat, which stops the actor or pings, then scan.
Heartbeat ==
    /\ actor = "started"
    /\ "heartbeat" \in due
    /\ due' = due \ {"heartbeat"}
    /\ IF HeartbeatFailed(age)
       THEN /\ Stop("heartbeat")
            /\ UNCHANGED << frames, lines >>
       ELSE /\ frames' = Scanned
            /\ lines' = 0
            /\ UNCHANGED << actor, stoppedBy >>
    /\ UNCHANGED << age, sinceBeat, phase, exec, pool, thread, running >>
    /\ UNCHANGED offSock

\* Variant of NotRunning: the run is never found finished.
NotRunningNever(ex, flag) == FALSE

\* ExecutePipelineSocket::exec: whether the actor has an executor state
\* whose run is not running.
NotRunning(ex, flag) == ex # None /\ ~flag

\* The 10 s interval: scan, then exec, which stops the actor when the run is
\* not running.
ExecTick ==
    /\ actor = "started"
    /\ "exec" \in due
    /\ due' = due \ {"exec"}
    /\ frames' = Scanned
    /\ lines' = 0
    /\ IF NotRunning(exec, running)
       THEN Stop("exec")
       ELSE UNCHANGED << actor, stoppedBy >>
    /\ UNCHANGED << age, sinceBeat, phase, exec, pool, thread, running >>
    /\ UNCHANGED offSock

\* Variant of Refreshed: a pong does not refresh the heartbeat.
RefreshedByPing(msg, elapsed) == IF msg = "ping" THEN 0 ELSE elapsed

\* StreamHandler::handle, Ping and Pong: self.hb = Instant::now().
Refreshed(msg, elapsed) == 0

\* The client's ping or pong is handled.
ClientBeat ==
    /\ actor = "started"
    /\ \E msg \in {"ping", "pong"} :
          age' = Refreshed(msg, age)
    /\ sinceBeat' = 0
    /\ UNCHANGED << actor, stoppedBy, phase, due, exec, frames, lines, pool,
                    thread, running >>
    /\ UNCHANGED offSock

\* StreamHandler::handle, Close and every other message: the actor stops.
ClientClose ==
    /\ actor = "started"
    /\ Stop("client")
    /\ UNCHANGED << age, sinceBeat, phase, due, exec, frames, lines, pool,
                    thread, running >>
    /\ UNCHANGED offSock

\* StreamHandler::handle, Text: get_info and, when it succeeds, spawn.
\* get_info fails before the run row exists ("early"), after the sender was
\* put in the pool ("logger"), or after the executor state was also saved in
\* the actor ("scanner"); a failure sends the error frame and stops.
HandleText ==
    /\ actor = "started"
    /\ thread.pc = "none"
    /\ exec = None
    /\ \E got \in {"ok", "early", "logger", "scanner"} :
          /\ pool' = IF got = "early" THEN pool ELSE pool \cup {RunUuid}
          /\ running' = IF got = "early" THEN running ELSE InsertedRunning
          /\ exec' = IF got \in {"ok", "scanner"} THEN "Some" ELSE exec
          /\ IF got = "ok"
             THEN /\ thread' = [thread EXCEPT !.pc = "spawned"]
                  /\ UNCHANGED << actor, stoppedBy, frames >>
             ELSE /\ frames' = frames \cup {ErrorFrame}
                  /\ Stop("error")
                  /\ UNCHANGED thread
    /\ UNCHANGED << age, sinceBeat, phase, due, lines >>
    /\ UNCHANGED offSock

\* The run thread ends.
Exit(how) == [pc |-> "exit", end |-> how]

\* PipelineInfo::spawn, Runtime::new(): on an error the thread returns.
RuntimeNew ==
    /\ thread.pc = "spawned"
    /\ \E ok \in BOOLEAN :
          thread' = IF ok THEN [thread EXCEPT !.pc = "runtime"] ELSE Exit("runtime")
    /\ UNCHANGED << actor, stoppedBy, age, sinceBeat, phase, due, exec, frames,
                    lines, pool, running >>
    /\ UNCHANGED offSock

\* PipelineInfo::spawn, build_runner: on an error the thread returns.
ThreadBuild ==
    /\ thread.pc = "runtime"
    /\ \E ok \in BOOLEAN :
          thread' = IF ok THEN [thread EXCEPT !.pc = "built"] ELSE Exit("build")
    /\ UNCHANGED << actor, stoppedBy, age, sinceBeat, phase, due, exec, frames,
                    lines, pool, running >>
    /\ UNCHANGED offSock

\* Runner::run of the root on the run thread: persist_start and info.
RunStart ==
    /\ thread.pc = "built"
    /\ thread' = [thread EXCEPT !.pc = "started"]
    /\ running' = TRUE
    /\ lines' = 1
    /\ UNCHANGED << actor, stoppedBy, age, sinceBeat, phase, due, exec, frames,
                    pool >>
    /\ UNCHANGED offSock

\* Runner::run: the artifacts and steps, whose error is dumped to the log,
\* then persist_end.
RunEnd ==
    /\ thread.pc = "started"
    /\ thread' = [thread EXCEPT !.pc = "ended"]
    /\ running' = FALSE
    /\ lines' = 1
    /\ UNCHANGED << actor, stoppedBy, age, sinceBeat, phase, due, exec, frames,
                    pool >>
    /\ UNCHANGED offSock

\* Runner::run returns the result of dispose to PipelineInfo::spawn, which
\* logs an error and goes on.
RunReturn ==
    /\ thread.pc = "ended"
    /\ \E how \in {"ok", "err"} :
          thread' = [pc |-> "returned", end |-> how]
    /\ UNCHANGED << actor, stoppedBy, age, sinceBeat, phase, due, exec, frames,
                    lines, pool, running >>
    /\ UNCHANGED offSock

\* PipelineInfo::spawn: pool.remove(&self.id), then the thread ends.
PoolRemove ==
    /\ thread.pc = "returned"
    /\ pool' = pool \ {RunUuid}
    /\ thread' = [thread EXCEPT !.pc = "exit"]
    /\ UNCHANGED << actor, stoppedBy, age, sinceBeat, phase, due, exec, frames,
                    lines, running >>
    /\ UNCHANGED offSock

SockNext ==
    \/ Advance
    \/ Heartbeat
    \/ ExecTick
    \/ ClientBeat
    \/ ClientClose
    \/ HandleText
    \/ RuntimeNew
    \/ ThreadBuild
    \/ RunStart
    \/ RunEnd
    \/ RunReturn
    \/ PoolRemove

SockSpec == SockInit /\ [][SockNext]_vars

\* The intervals fire and their callbacks run, and the run thread is
\* scheduled: each of its operations finishes.
SockFair ==
    /\ SockSpec
    /\ WF_vars(Advance)
    /\ WF_vars(Heartbeat)
    /\ WF_vars(ExecTick)
    /\ WF_vars(RuntimeNew)
    /\ WF_vars(ThreadBuild)
    /\ WF_vars(RunStart)
    /\ WF_vars(RunEnd)
    /\ WF_vars(RunReturn)
    /\ WF_vars(PoolRemove)

\* C16: the entry of the run is in the pipeline pool from before the run
\* thread is spawned, and no entry of a finished run thread remains in the
\* pool, whether the thread ended on a runtime failure, a build failure, a
\* failed run or a successful one.
C16_PoolEntryRemoved ==
    /\ thread.pc \notin {"none", "exit"} => RunUuid \in pool
    /\ thread.pc = "exit" => RunUuid \notin pool

\* C17: when the construction of the Runner has failed on the run thread,
\* the error text frame is eventually sent to the client and the actor stops.
C17_BuildFailureSurfaced ==
    (thread.end = "build") ~> (ErrorFrame \in frames /\ actor = "stopped")

C19_Heartbeat ==
    /\ stoppedBy = "heartbeat" => sinceBeat > HeartbeatTimeout
    /\ actor = "started" /\ "heartbeat" \notin due => sinceBeat <= HeartbeatTimeout
    /\ actor = "started" => age = sinceBeat

\* The heartbeat has stopped the actor although the client had sent a pong
\* some time after the start, and an interval found exactly 10 s passed
\* without stopping.
C19_Witness ==
    /\ stoppedBy = "heartbeat"
    /\ sinceBeat = HeartbeatTimeout + HeartbeatInterval
    /\ phase # sinceBeat % ExecInterval

\* Whether the Runner on the run thread has executed persist_end.
PersistEnded ==
    \/ thread.pc \in {"ended", "returned"}
    \/ thread.pc = "exit" /\ thread.end \in {"ok", "err"}

\* C28: the 10 s interval stops the actor for a run that is not running only
\* after the Runner has executed persist_end: not between the handling of
\* the ExecInfo and persist_start, and not while the run is in progress.
C28_StoppedAfterPersistEnd ==
    stoppedBy = "exec" => PersistEnded

\* ---------------------------------------------------------------------
\* The worker supervisor: UnixSocketServerReader::handle and the queue of
\* workers it appends to.
\* ---------------------------------------------------------------------

\* The concurrency cap N of the queue.
Capacity == 2

\* The most workers ever enqueued, and the most messages of one batch.
MaxWorkers == 3
MaxBatch == 2

\* The lifecycle of a worker.
WorkerStates == {"Queued", "Running", "Exited", "Failed"}

\* UnixSocketMessage: ServerEnqueue with its optional variables and
\* environment, and the kinds the server reader does not act on.
ServerEnqueue(pipeline, run_id, variables, environment) ==
    [kind |-> "ServerEnqueue", pipeline |-> pipeline, run_id |-> run_id,
     variables |-> variables, environment |-> environment]

OtherMessage(kind) ==
    [kind |-> kind, pipeline |-> None, run_id |-> None,
     variables |-> None, environment |-> None]

Messages ==
    { ServerEnqueue("p", "r", None, None), ServerEnqueue("p", "r", "v", None),
      ServerEnqueue("p", "r", None, "e") }
        \cup { OtherMessage(k) : k \in {"WorkerAck", "Monitor"} }

\* A message of a batch with the outcome of current_exe() while handling it
\* (asked for a ServerEnqueue only).
BatchEntries ==
    { [msg |-> m, exe |-> x] : m \in Messages, x \in BOOLEAN } \
        { [msg |-> OtherMessage(k), exe |-> FALSE] : k \in {"WorkerAck", "Monitor"} }

Batches == UNION { [1..n -> BatchEntries] : n \in 0..MaxBatch }

\* The command of the worker: the executable with the subcommand and flags.
Command(message) ==
    << "exe", "worker", "--pipeline", message.pipeline, "--run-id", message.run_id >>
        \o (IF message.variables # None
            THEN << "--variables", message.variables >> ELSE << >>)
        \o (IF message.environment # None
            THEN << "--environment", message.environment >> ELSE << >>)

\* Variant of PipelineWorker: the handler starts the process itself.
PipelineWorkerSpawned(command) == [cmd |-> command, state |-> "Running"]

\* PipelineWorker::new(command) as handed to the queue: a worker that has
\* not been started.
PipelineWorker(command) == [cmd |-> command, state |-> "Queued"]

\* Queue::enqueue: the worker is appended.
Enqueue(queue, worker) == Append(queue, worker)

\* Variant of HandleMessages: an executable that is not resolved ends the
\* handling of the batch.
RECURSIVE HandleMessagesReturn(_, _)
HandleMessagesReturn(queue, messages) ==
    IF messages = << >>
    THEN queue
    ELSE LET m == Head(messages)
         IN  IF m.msg.kind = "ServerEnqueue" /\ ~m.exe
             THEN queue
             ELSE HandleMessagesReturn(
                      IF m.msg.kind = "ServerEnqueue"
                      THEN Append(queue, [cmd |-> Command(m.msg), state |-> "Queued"])
                      ELSE queue,
                      Tail(messages))

\* Variant of HandleMessages: the worker is put at the head of the queue.
RECURSIVE HandleMessagesFront(_, _)
HandleMessagesFront(queue, messages) ==
    IF messages = << >>
    THEN queue
    ELSE LET m == Head(messages)
         IN  HandleMessagesFront(
                 IF m.msg.kind = "ServerEnqueue" /\ m.exe
                 THEN << [cmd |-> Command(m.msg), state |-> "Queued"] >> \o queue
                 ELSE queue,
                 Tail(messages))

\* UnixSocketServerReader::handle: the messages in order; a ServerEnqueue
\* whose executable is not resolved is skipped, any other kind is ignored.
RECURSIVE HandleMessages(_, _)
HandleMessages(queue, messages) ==
    IF messages = << >>
    THEN queue
    ELSE LET m == Head(messages)
         IN  HandleMessages(
                 IF m.msg.kind = "ServerEnqueue" /\ m.exe
                 THEN Enqueue(queue, PipelineWorker(Command(m.msg)))
                 ELSE queue,
                 Tail(messages))

SupInit ==
    /\ workers = << >>
    /\ handled = << >>
    /\ running = FALSE
    /\ RunIdle
    /\ BuilderIdle
    /\ CtxIdle
    /\ SockIdle
    /\ CallIdle

\* A batch of messages read from a peer is handled.
Handle ==
    /\ \E messages \in Batches :
          LET queue == HandleMessages(workers, messages)
          IN  /\ Len(queue) <= MaxWorkers
              /\ workers' = queue
    /\ UNCHANGED handled
    /\ UNCHANGED offSup

\* The workers in a state.
InState(queue, state) == { i \in DOMAIN queue : queue[i].state = state }

\* A slot is open while fewer than N workers are running.
SlotOpen(queue) == Cardinality(InState(queue, "Running")) < Capacity

\* The head of the queue: the queued worker enqueued earliest.
HeadQueued(queue) ==
    CHOOSE i \in InState(queue, "Queued") :
        \A j \in InState(queue, "Queued") : i <= j

\* The head of the queue is started when a slot is open; a worker whose
\* start fails goes to Failed and takes no slot.
Start ==
    /\ InState(workers, "Queued") # {}
    /\ SlotOpen(workers)
    /\ \E started \in BOOLEAN :
          workers' = [workers EXCEPT ![HeadQueued(workers)].state =
                          IF started THEN "Running" ELSE "Failed"]
    /\ UNCHANGED handled
    /\ UNCHANGED offSup

\* The process of a running worker exits.
ProcessExit ==
    /\ \E i \in InState(workers, "Running"), how \in {"Exited", "Failed"} :
          workers' = [workers EXCEPT ![i].state = how]
    /\ UNCHANGED handled
    /\ UNCHANGED offSup

SupNext ==
    \/ Handle
    \/ Start
    \/ ProcessExit

SupSpec == SupInit /\ [][SupNext]_vars

\* C20: at most N workers are Running and every other worker that has not
\* terminated is Queued; a worker goes from Queued to Running only when a
\* slot is open, to Exited only from Running, to Failed only from Running or,
\* when its start fails with a slot open, from Queued; no other change of
\* state happens and no worker leaves the sequence otherwise.
C20_ConcurrencyCap ==
    /\ [](/\ Cardinality(InState(workers, "Running")) <= Capacity
          /\ \A i \in DOMAIN workers : workers[i].state \in WorkerStates)
    /\ [][/\ Len(workers') >= Len(workers)
          /\ \A i \in DOMAIN workers :
                workers'[i].state # workers[i].state =>
                   \/ /\ workers[i].state = "Queued"
                      /\ workers'[i].state \in {"Running", "Failed"}
                      /\ SlotOpen(workers)
                   \/ /\ workers[i].state = "Running"
                      /\ workers'[i].state \in {"Exited", "Failed"}]_vars

\* The cap is reached with a third worker waiting behind the two running.
C20_Witness ==
    /\ Cardinality(InState(workers, "Running")) = Capacity
    /\ InState(workers, "Queued") = {Capacity + 1}

\* C21: an enqueue is accepted whatever the number of running workers, the
\* new workers are Queued at the tail and the workers already there are left
\* as they were; a worker is started only when no worker enqueued before it
\* is still Queued, so the workers that are Queued are always the latest
\* enqueued and the workers start in the order of their enqueueing.
C21_HeadOfQueueFirst ==
    /\ [](\A i, j \in DOMAIN workers :
             i < j /\ workers[i].state = "Queued" => workers[j].state = "Queued")
    /\ [][Len(workers') > Len(workers) =>
             /\ SubSeq(workers', 1, Len(workers)) = workers
             /\ \A i \in (Len(workers) + 1)..Len(workers') :
                   workers'[i].state = "Queued"]_vars
    /\ [][\A i \in DOMAIN workers :
             workers[i].state = "Queued" /\ workers'[i].state = "Running" =>
                /\ SlotOpen(workers)
                /\ \A j \in 1..(i - 1) : workers[j].state # "Queued"]_vars

\* The first worker has terminated and the two enqueued after it are
\* running: the third was started only after the second.
C21_Witness ==
    /\ Len(workers) = Capacity + 1
    /\ workers[1].state \in {"Exited", "Failed"}
    /\ \A i \in 2..(Capacity + 1) : workers[i].state = "Running"

\* The messages with, besides, the ServerEnqueue that has both options, and
\* the batches of them.
AllMessages == Messages \cup { ServerEnqueue("p", "r", "v", "e") }

AllBatchEntries ==
    BatchEntries \cup { [msg |-> ServerEnqueue("p", "r", "v", "e"), exe |-> x] : x \in BOOLEAN }

AllBatches == UNION { [1..n -> AllBatchEntries] : n \in 0..MaxBatch }

\* One worker already in the queue, in any state.
EarlierWorkers ==
    { [cmd |-> Command(m), state |-> st] :
         m \in { n \in AllMessages : n.kind = "ServerEnqueue" }, st \in WorkerStates }

\* A queue that is empty or holds one earlier worker, and no batch handled.
HandleInit ==
    /\ workers \in {<< >>} \cup { << w >> : w \in EarlierWorkers }
    /\ handled = << >>
    /\ running = FALSE
    /\ RunIdle
    /\ BuilderIdle
    /\ CtxIdle
    /\ SockIdle
    /\ CallIdle

\* UnixSocketServerReader::handle on one batch, which is kept.
HandleOnce ==
    /\ handled = << >>
    /\ \E messages \in AllBatches :
          /\ workers' = HandleMessages(workers, messages)
          /\ handled' = << messages >>
    /\ UNCHANGED offSup

HandleSpec == HandleInit /\ [][HandleOnce]_vars

\* The messages of a batch that are to give a worker, in their order.
Accepted(batch) ==
    SelectSeq(batch, LAMBDA m : m.msg.kind = "ServerEnqueue" /\ m.exe)

\* Whether a command is that of a message: the executable, `worker`, the
\* pipeline and the run id, then each optional flag with its value when, and
\* only when, the message has it.
CommandOf(cmd, message) ==
    LET opts == SubSeq(cmd, 7, Len(cmd))
        flags == { opts[i] : i \in { j \in DOMAIN opts : j % 2 = 1 } }
        ValueOf(flag) == opts[(CHOOSE i \in DOMAIN opts : opts[i] = flag) + 1]
    IN  /\ Len(cmd) >= 6
        /\ SubSeq(cmd, 1, 6) =
              << "exe", "worker", "--pipeline", message.pipeline,
                 "--run-id", message.run_id >>
        /\ Len(opts) % 2 = 0
        /\ Cardinality(flags) * 2 = Len(opts)
        /\ flags = (IF message.variables # None THEN {"--variables"} ELSE {})
                      \cup (IF message.environment # None THEN {"--environment"} ELSE {})
        /\ "--variables" \in flags => ValueOf("--variables") = message.variables
        /\ "--environment" \in flags => ValueOf("--environment") = message.environment

\* C22: after `handle` was given a batch, the queue is the queue of before
\* followed by one unstarted worker for every ServerEnqueue of the batch
\* whose executable was resolved, in the order of the batch, each with the
\* command of its message; the messages whose executable was not resolved
\* and the messages of another kind add nothing and stop nothing.
C22_BatchHandled ==
    [][handled' # << >> /\ handled = << >> =>
          LET accepted == Accepted(handled'[1])
          IN  /\ Len(workers') = Len(workers) + Len(accepted)
              /\ SubSeq(workers', 1, Len(workers)) = workers
              /\ \A i \in DOMAIN accepted :
                    /\ workers'[Len(workers) + i].state = "Queued"
                    /\ CommandOf(workers'[Len(workers) + i].cmd, accepted[i].msg)]_vars

\* A batch whose first ServerEnqueue found no executable and whose second
\* one, with both options, was enqueued behind the worker already there.
C22_Witness ==
    /\ handled # << >>
    /\ Len(handled[1]) = 2
    /\ handled[1][1].msg.kind = "ServerEnqueue" /\ ~handled[1][1].exe
    /\ handled[1][2].msg = ServerEnqueue("p", "r", "v", "e") /\ handled[1][2].exe
    /\ Len(workers) = 2
    /\ workers[2].cmd[7] = "--variables"
    /\ workers[2].cmd[9] = "--environment"

\* ---------------------------------------------------------------------
\* The chain of nested calls: Runner::run, Runner::steps and Runner::call
\* over pipeline files whose calls form cycles. Only the innermost MaxDepth
\* Runners are kept.
\* ---------------------------------------------------------------------

\* Pipeline files: `loop` calls itself, `ping` and `pong` call each other,
\* `pong` calling `leaf` first, `leaf` calls nothing, and `all` calls `leaf`
\* and `ping` in its first step and `loop` in its second.
CyclicNames == {"loop", "ping", "pong", "leaf", "all"}

CyclicFiles ==
    [p \in CyclicNames |->
        CASE p = "loop" ->
            Pipeline("loop", MACHINE, FALSE, << >>,
                << BuildStep("again", <<"loop">>, <<"make">>) >>)
          [] p = "ping" ->
            Pipeline("ping", MACHINE, FALSE, << >>,
                << BuildStep("serve", <<"pong">>, <<"make">>) >>)
          [] p = "pong" ->
            Pipeline("pong", MACHINE, FALSE, << >>,
                << BuildStep(None, <<"leaf", "ping">>, << >>),
                   BuildStep("after", << >>, <<"make">>) >>)
          [] p = "all" ->
            Pipeline("all", MACHINE, FALSE, << >>,
                << BuildStep("first", <<"leaf", "ping">>, <<"make">>),
                   BuildStep(None, <<"loop">>, <<"pack">>) >>)
          [] OTHER ->
            Pipeline("leaf", MACHINE, FALSE, << >>,
                << BuildStep(None, << >>, <<"lint">>) >>)]

\* A Runner of the chain: its pipeline, its position in Runner::run, the
\* step and the call it is at.
Called(pip) == [pip |-> pip, pc |-> "start", i |-> 1, j |-> 1]

\* Runner::steps reaching step i: Runner::call when the step has calls,
\* Runner::sh otherwise, and the end of the loop after the last step.
StepAt(f, i) ==
    IF i > Len(CyclicFiles[f.pip].steps) THEN [f EXCEPT !.pc = "end"]
    ELSE IF CyclicFiles[f.pip].steps[i].call # << >>
         THEN [f EXCEPT !.pc = "call", !.i = i, !.j = 1]
         ELSE [f EXCEPT !.pc = "sh", !.i = i]

\* Runner::call after call j returned Ok and no stop signal was received:
\* the next call of the step, or Runner::sh.
CallAt(f, j) ==
    IF j <= Len(CyclicFiles[f.pip].steps[f.i].call)
    THEN [f EXCEPT !.pc = "call", !.j = j]
    ELSE [f EXCEPT !.pc = "sh"]

\* The innermost Runner, and the chain with it replaced.
Inner == chain[Len(chain)]
SetInner(f) == [chain EXCEPT ![Len(chain)] = f]

\* The root Runner of one of the pipelines has been built.
CallInit ==
    /\ \E p \in CyclicNames : chain = << Called(p) >>
    /\ deeper = FALSE
    /\ returned = "none"
    /\ running = FALSE
    /\ RunIdle
    /\ BuilderIdle
    /\ CtxIdle
    /\ SockIdle
    /\ SupIdle

\* Runner::run: persist_start, info and the artifacts before the steps, which
\* end; their error skips the steps.
RunBegin ==
    /\ chain # << >>
    /\ Inner.pc = "start"
    /\ \E ok \in BOOLEAN :
          chain' = SetInner(IF ok THEN StepAt(Inner, 1) ELSE [Inner EXCEPT !.pc = "end"])
    /\ UNCHANGED << deeper, returned >>
    /\ UNCHANGED offCall

\* Runner::call: the Runner built for the called pipeline joins the chain,
\* whichever pipelines the chain holds.
Nested(callers, pip) == Append(callers, Called(pip))

\* Runner::call at call j: the child is built and run, or its build fails
\* and the error leaves the steps.
CallBuild ==
    /\ chain # << >>
    /\ Inner.pc = "call"
    /\ \E ok \in BOOLEAN :
          LET waiting == SetInner([Inner EXCEPT !.pc = "wait"])
              nested == Nested(waiting, CyclicFiles[Inner.pip].steps[Inner.i].call[Inner.j])
          IN  IF ~ok
              THEN /\ chain' = SetInner([Inner EXCEPT !.pc = "end"])
                   /\ UNCHANGED deeper
              ELSE IF Len(nested) > MaxDepth
                   THEN /\ chain' = Tail(nested)
                        /\ deeper' = TRUE
                   ELSE /\ chain' = nested
                        /\ UNCHANGED deeper
    /\ UNCHANGED returned
    /\ UNCHANGED offCall

\* Runner::sh, then the artifacts of the step and the stop-signal check: the
\* commands and transfers end; an error or a stop signal leaves the steps.
ShRun ==
    /\ chain # << >>
    /\ Inner.pc = "sh"
    /\ \E ok \in BOOLEAN :
          chain' = SetInner(IF ok THEN StepAt(Inner, Inner.i + 1)
                            ELSE [Inner EXCEPT !.pc = "end"])
    /\ UNCHANGED << deeper, returned >>
    /\ UNCHANGED offCall

\* Runner::run: persist_end and dispose, whose result the run returns: to
\* Runner::call of the caller, which goes on when it is Ok and no stop signal
\* was received, or to the run thread. A caller that is not kept is not
\* followed further.
RunFinish ==
    /\ chain # << >>
    /\ Inner.pc = "end"
    /\ \E ok \in BOOLEAN :
          IF Len(chain) > 1
          THEN /\ LET caller == chain[Len(chain) - 1]
                      callers == SubSeq(chain, 1, Len(chain) - 1)
                  IN  chain' = [callers EXCEPT ![Len(callers)] =
                                   IF ok THEN CallAt(caller, caller.j + 1)
                                   ELSE [caller EXCEPT !.pc = "end"]]
               /\ UNCHANGED returned
          ELSE /\ chain' = << >>
               /\ returned' = IF deeper THEN "unfollowed"
                              ELSE IF ok THEN "ok" ELSE "err"
    /\ UNCHANGED deeper
    /\ UNCHANGED offCall

CallNext ==
    \/ RunBegin
    \/ CallBuild
    \/ ShRun
    \/ RunFinish

CallSpec == CallInit /\ [][CallNext]_vars

\* The run thread keeps executing the run.
CallFair == CallSpec /\ WF_vars(CallNext)

\* C26: every run returns: Runner::run of the root reaches persist_end and
\* dispose and returns to the run thread (a run whose outermost callers are
\* not kept counts as returned when its outermost kept Runner returns).
C26_RunTerminates == <>(returned # "none")

====
